---- MODULE Spec2Model ----
(***************************************************************************)
(* Model of the metrics registry of src/lib/metrics/metrics.hpp:           *)
(* Metrics (provider handle, three instrument caches, one mutex),          *)
(* addCounter / addUpDownCounter as they run line by line under the        *)
(* scoped_lock, and the ScopedLatency timer.  The bodies of init,          *)
(* initHistograms, shutdown, ScopedLatency::stop, ~ScopedLatency and the   *)
(* three-argument ScopedLatency constructor are only declared in the       *)
(* header; they are modelled from the design document.                     *)
(***************************************************************************)
EXTENDS Integers, Sequences, FiniteSets, TLC

\* ---------------------------------------------------------------- bounds
NumThreads == 2      \* worker threads
MaxCalls == 2        \* calls issued in SpecCounter and SpecUpDown
MaxOps == 2          \* calls issued plus timers constructed in Spec
MaxTimers == 1       \* timers constructed in SpecTimers
MaxTime == 1         \* ticks of the monotonic clock
MaxLen == 4          \* characters of a signature passed to methodName

Threads == 1..NumThreads
Names == {"shared", "x"}
CounterValues == {1, 2}
Deltas == {0 - 1, 0, 1}
ExitPaths == {"normal", "early_return", "exception"}

\* ----------------------------------------------------------- vocabulary
NoProvider == "nullptr"
Installed == "provider"
NoMeter == "empty"
TheMeter == "stats"
NoThread == 0
NullInstrument == 0
NoCall == [op |-> "none", name |-> "", value |-> 0]
NoTimer == [state |-> "none"]
Destroyed == [state |-> "destroyed"]
NoMethodName == [arg |-> << >>, done |-> FALSE, result |-> << >>]

VARIABLES
  provider,          \* metrics_api::Provider::GetMeterProvider()
  phase,             \* lifecycle of the registry: boot, initializing, running, disabled, down
  mutex_,            \* Metrics::mutex_: NoThread or the thread that holds it
  counters,          \* Metrics::counters: name -> instrument
  upDownCounters,    \* Metrics::upDownCounters: name -> instrument
  latencyHistograms, \* Metrics::latencyHistograms: name -> instrument
  instruments,       \* every instrument the meter has created, in creation order
  pc,                \* per thread: position inside addCounter / addUpDownCounter
  call,              \* per thread: the arguments of the call in progress
  ncalls,            \* per thread: calls started so far
  sent,              \* per (kind, name): calls and values issued while a provider was installed
  timer,             \* per thread: the ScopedLatency object it owns
  obs,               \* per thread: what has been observed of that timer
  timersMade,        \* timers constructed so far
  now,               \* std::chrono::steady_clock
  histInits,         \* completed initHistograms() calls: 0, 1, or 2 for two and more
  crashed,           \* the process has hit undefined behaviour and died
  faults,            \* histogram names the timer constructor has reported as unknown
  mn                 \* a call of methodName: its argument and, once made, its result

vars == <<provider, phase, mutex_, counters, upDownCounters, latencyHistograms,
          instruments, pc, call, ncalls, sent, timer, obs, timersMade, now,
          histInits, crashed, faults, mn>>

registryVars == <<provider, phase, histInits>>
cacheVars == <<counters, upDownCounters, latencyHistograms, instruments>>
callVars == <<mutex_, pc, call, ncalls, sent>>
timerVars == <<timer, obs, timersMade>>
otherVars == <<faults, mn>>

\* ------------------------------------------------------ the static tables
\* DEFINE_LATENCY_CLASS(class_name, histogram_name, category)
LatencyClasses ==
  << [class_name |-> "method", histogram_name |-> "method", category |-> "method"],
     [class_name |-> "lua",    histogram_name |-> "lua",    category |-> "scope"],
     [class_name |-> "query",  histogram_name |-> "query",  category |-> "truncated_query"],
     [class_name |-> "task",   histogram_name |-> "task",   category |-> "task"],
     [class_name |-> "lock",   histogram_name |-> "lock",   category |-> "scope"] >>

\* variant: the histogram name without its suffix
HistogramNameBare(c) == c.histogram_name

\* ScopedLatency(name, histogram_name "_latency", category)
HistogramNameOf(c) == c.histogram_name \o "_latency"

\* variant: the vector without its last entry
LatencyNamesShort ==
  << "method_latency", "lua_latency", "query_latency", "task_latency" >>

\* const std::vector<std::string> latencyNames
latencyNames ==
  << "method_latency", "lua_latency", "query_latency", "task_latency", "lock_latency" >>

\* --------------------------------------------------------- the meter side
NewInstrument(kind, name) == [kind |-> kind, name |-> name, total |-> 0, count |-> 0]

\* Meter::CreateDoubleCounter / CreateInt64UpDownCounter / CreateDoubleHistogram:
\* every call yields a fresh instrument object.
CreateInstrument(insts, kind, name) == Append(insts, NewInstrument(kind, name))

\* variant: getMeter() without the nullptr test
GetMeterAlways(p) == TheMeter

\* Metrics::getMeter(): empty when no provider is installed
getMeter(p) == IF p = NoProvider THEN NoMeter ELSE TheMeter

\* counters[name]->Add(value, attrskv): a double is added to instrument h
AddDouble(insts, h, v) == [insts EXCEPT ![h].total = @ + v, ![h].count = @ + 1]

\* variant: an Add that ignores negative deltas
AddClamped(insts, h, v) ==
  [insts EXCEPT ![h].total = @ + (IF v < 0 THEN 0 ELSE v), ![h].count = @ + 1]

\* upDownCounters[name]->Add(value, attrskv): the int delta, widened to
\* int64_t with its sign, is added to instrument h
AddInt64(insts, h, v) == [insts EXCEPT ![h].total = @ + v, ![h].count = @ + 1]

\* histogram->Record(elapsed, attrs, context)
RecordTo(insts, h, v) == [insts EXCEPT ![h].total = @ + v, ![h].count = @ + 1]

\* ------------------------------------------------------------ the caches
EmptyCache == [n \in {} |-> NullInstrument]

\* variant: an assignment that drops the other entries
PutOnly(cache, name, h) == [n \in {name} |-> h]

\* cache[name] = h
Put(cache, name, h) ==
  [n \in DOMAIN cache \cup {name} |-> IF n = name THEN h ELSE cache[n]]

\* the instruments created so far for (kind, name)
Created(kind, name) ==
  {h \in DOMAIN instruments : instruments[h].kind = kind /\ instruments[h].name = name}

\* calls started so far by the threads of S
RECURSIVE SumCalls(_)
SumCalls(S) ==
  IF S = {} THEN 0
  ELSE LET t == CHOOSE x \in S : TRUE IN ncalls[t] + SumCalls(S \ {t})

\* ------------------------------------------------------------------ Init
\* the registry as constructed: no provider has been installed yet, the caches
\* are empty, the mutex is free, no thread is inside a call and no timer exists
Init ==
  /\ provider = NoProvider
  /\ phase = "boot"
  /\ mutex_ = NoThread
  /\ counters = EmptyCache
  /\ upDownCounters = EmptyCache
  /\ latencyHistograms = EmptyCache
  /\ instruments = << >>
  /\ pc = [t \in Threads |-> "idle"]
  /\ call = [t \in Threads |-> NoCall]
  /\ ncalls = [t \in Threads |-> 0]
  /\ sent = [k \in {"counter", "updown"} |-> [n \in Names |-> [calls |-> 0, sum |-> 0]]]
  /\ timer = [t \in Threads |-> NoTimer]
  /\ obs = [t \in Threads |-> NoTimer]
  /\ timersMade = 0
  /\ now = 0
  /\ histInits = 0
  /\ crashed = FALSE
  /\ faults = {}
  /\ mn = NoMethodName

\* ------------------------------------------------- registry life cycle
\* variant: the provider is installed before the options are looked at
InitRegistryEager(opts) ==
  /\ ~crashed
  /\ phase = "boot"
  /\ \A t \in Threads : pc[t] = "idle"
  /\ provider' = Installed
  /\ phase' = IF opts.enablePrometheusExporter \/ opts.enableOStreamExporter
               THEN "initializing" ELSE "disabled"
  /\ UNCHANGED <<histInits, cacheVars, callVars, timerVars, now, crashed, otherVars>>

\* Metrics::init(opts): with an exporter enabled the provider is installed and
\* initHistograms() follows; with none enabled the registry stays disabled.
\* init runs at boot, before any worker thread is inside a recording call.
InitRegistry(opts) ==
  /\ ~crashed
  /\ phase = "boot"
  /\ \A t \in Threads : pc[t] = "idle"
  /\ IF opts.enablePrometheusExporter \/ opts.enableOStreamExporter
       THEN provider' = Installed /\ phase' = "initializing"
       ELSE provider' = provider /\ phase' = "disabled"
  /\ UNCHANGED <<histInits, cacheVars, callVars, timerVars, now, crashed, otherVars>>

\* the loop of initHistograms() from position i of latencyNames on: create the
\* histogram of each name that is absent from the cache
RECURSIVE HistogramsFrom(_, _, _)
HistogramsFrom(i, cache, insts) ==
  IF i > Len(latencyNames) THEN [cache |-> cache, insts |-> insts]
  ELSE IF latencyNames[i] \in DOMAIN cache
       THEN HistogramsFrom(i + 1, cache, insts)
       ELSE HistogramsFrom(i + 1,
                           Put(cache, latencyNames[i], Len(insts) + 1),
                           CreateInstrument(insts, "histogram", latencyNames[i]))

\* Metrics::initHistograms(): called by init, and callable again later
InitHistograms ==
  /\ ~crashed
  /\ getMeter(provider) /= NoMeter
  /\ phase \in {"initializing", "running"}
  /\ LET r == HistogramsFrom(1, latencyHistograms, instruments) IN
       /\ latencyHistograms' = r.cache
       /\ instruments' = r.insts
  /\ phase' = "running"
  /\ histInits' = IF histInits = 0 THEN 1 ELSE 2
  /\ UNCHANGED <<provider, counters, upDownCounters, callVars, timerVars, now, crashed, otherVars>>

\* Metrics::shutdown(): releases the provider; takes no lock
Shutdown ==
  /\ ~crashed
  /\ phase \in {"running", "disabled"}
  /\ provider' = NoProvider
  /\ phase' = "down"
  /\ UNCHANGED <<histInits, cacheVars, callVars, timerVars, now, crashed, otherVars>>

\* ------------------------------------ addCounter / addUpDownCounter
\* a thread enters addCounter(name, v) or addUpDownCounter(name, v)
Call(t, kind, name, v) ==
  /\ ~crashed
  /\ pc[t] = "idle"
  /\ pc' = [pc EXCEPT ![t] = "lock"]
  /\ call' = [call EXCEPT ![t] = [op |-> kind, name |-> name, value |-> v]]
  /\ ncalls' = [ncalls EXCEPT ![t] = @ + 1]
  /\ sent' = IF provider = Installed
              THEN [sent EXCEPT ![kind][name] =
                      [calls |-> @.calls + 1, sum |-> @.sum + v]]
              ELSE sent
  /\ UNCHANGED <<mutex_, registryVars, cacheVars, timerVars, now, crashed, otherVars>>

\* variant: no mutual exclusion
LockIgnored(m) == TRUE

\* std::scoped_lock lock(mutex_) can be taken
CanLock(m) == m = NoThread

\* the thread takes mutex_ and holds it to the end of the function
Lock(t) ==
  /\ ~crashed
  /\ pc[t] = "lock"
  /\ CanLock(mutex_)
  /\ mutex_' = t
  /\ pc' = [pc EXCEPT ![t] = "check"]
  /\ UNCHANGED <<call, ncalls, sent, registryVars, cacheVars, timerVars, now, crashed, otherVars>>

\* if (!getMeter()) return;   the return releases the lock
CheckMeter(t) ==
  /\ ~crashed
  /\ pc[t] = "check"
  /\ IF getMeter(provider) = NoMeter
       THEN /\ mutex_' = NoThread
            /\ pc' = [pc EXCEPT ![t] = "idle"]
            /\ call' = [call EXCEPT ![t] = NoCall]
       ELSE /\ pc' = [pc EXCEPT ![t] = "find"]
            /\ UNCHANGED <<mutex_, call>>
  /\ UNCHANGED <<ncalls, sent, registryVars, cacheVars, timerVars, now, crashed, otherVars>>

\* variant: the lookup always misses
AlwaysAbsent(cache, name) == TRUE

\* counters.find(name) == counters.end()
CounterAbsent(cache, name) == name \notin DOMAIN cache

\* variant: the lookup always misses
AlwaysAbsentUpDown(cache, name) == TRUE

\* upDownCounters.find(name) == upDownCounters.end()
UpDownCounterAbsent(cache, name) == name \notin DOMAIN cache

\* if (counters.find(name) == counters.end()) ...   (upDownCounters alike)
Find(t) ==
  /\ ~crashed
  /\ pc[t] = "find"
  /\ LET absent == IF call[t].op = "counter"
                    THEN CounterAbsent(counters, call[t].name)
                    ELSE UpDownCounterAbsent(upDownCounters, call[t].name)
     IN pc' = [pc EXCEPT ![t] = IF absent THEN "create" ELSE "add"]
  /\ UNCHANGED <<mutex_, call, ncalls, sent, registryVars, cacheVars, timerVars, now, crashed, otherVars>>

\* variant: the new instrument is entered into latencyHistograms as well
CreateIntoHistograms(t) ==
  /\ ~crashed
  /\ pc[t] = "create"
  /\ getMeter(provider) /= NoMeter
  /\ instruments' = CreateInstrument(instruments, call[t].op, call[t].name)
  /\ latencyHistograms' = Put(latencyHistograms, call[t].name, Len(instruments) + 1)
  /\ IF call[t].op = "counter"
       THEN /\ counters' = Put(counters, call[t].name, Len(instruments) + 1)
            /\ UNCHANGED upDownCounters
       ELSE /\ upDownCounters' = Put(upDownCounters, call[t].name, Len(instruments) + 1)
            /\ UNCHANGED counters
  /\ pc' = [pc EXCEPT ![t] = "add"]
  /\ UNCHANGED <<mutex_, call, ncalls, sent, registryVars, timerVars, now, crashed, otherVars>>

\* counters[name] = getMeter()->CreateDoubleCounter(nameStr), with a meter
Create(t) ==
  /\ ~crashed
  /\ pc[t] = "create"
  /\ getMeter(provider) /= NoMeter
  /\ instruments' = CreateInstrument(instruments, call[t].op, call[t].name)
  /\ IF call[t].op = "counter"
       THEN /\ counters' = Put(counters, call[t].name, Len(instruments) + 1)
            /\ UNCHANGED upDownCounters
       ELSE /\ upDownCounters' = Put(upDownCounters, call[t].name, Len(instruments) + 1)
            /\ UNCHANGED counters
  /\ pc' = [pc EXCEPT ![t] = "add"]
  /\ UNCHANGED <<mutex_, call, ncalls, sent, registryVars, latencyHistograms, timerVars, now, crashed, otherVars>>

\* the same line when the second getMeter() returns an empty Meter: operator->
\* of an empty shared_ptr is dereferenced.  The process dies; depending on the
\* order in which the build evaluates the two sides of the assignment,
\* counters[name] has or has not already inserted a default (null) entry.
CreateOnEmptyMeter(t) ==
  /\ ~crashed
  /\ pc[t] = "create"
  /\ getMeter(provider) = NoMeter
  /\ crashed' = TRUE
  /\ \/ UNCHANGED <<counters, upDownCounters>>
     \/ /\ call[t].op = "counter"
        /\ counters' = Put(counters, call[t].name, NullInstrument)
        /\ UNCHANGED upDownCounters
     \/ /\ call[t].op = "updown"
        /\ upDownCounters' = Put(upDownCounters, call[t].name, NullInstrument)
        /\ UNCHANGED counters
  /\ UNCHANGED <<callVars, registryVars, latencyHistograms, instruments, timerVars, now,
                 otherVars>>

\* counters[name]->Add(value, attrskv); then the scope ends and the lock is released
Add(t) ==
  /\ ~crashed
  /\ pc[t] = "add"
  /\ instruments' = IF call[t].op = "counter"
                    THEN AddDouble(instruments, counters[call[t].name], call[t].value)
                    ELSE AddInt64(instruments, upDownCounters[call[t].name], call[t].value)
  /\ mutex_' = NoThread
  /\ pc' = [pc EXCEPT ![t] = "idle"]
  /\ call' = [call EXCEPT ![t] = NoCall]
  /\ UNCHANGED <<ncalls, sent, registryVars, counters, upDownCounters, latencyHistograms,
                 timerVars, now, crashed, otherVars>>

\* ------------------------------------------------------- ScopedLatency
\* variant: stopped initialised to true
ScopedLatencyStopped(h, key, t) ==
  [state |-> "alive", histogram |-> h, attrs |-> key, begin |-> t, stopped |-> TRUE]

\* variant: begin left at the epoch of the clock
ScopedLatencyEpoch(h, key, t) ==
  [state |-> "alive", histogram |-> h, attrs |-> key, begin |-> 0, stopped |-> FALSE]

\* ScopedLatency(name, histogram, attrs, context):
\*   begin(steady_clock::now()), histogram(histogram), attrs(attrs), ..., stopped { false }
\* histogram is a reference to the slot of the cache, named here by its key;
\* attrs holds the call-site name under one label key, named here by that key
ScopedLatency(h, key, t) ==
  [state |-> "alive", histogram |-> h, attrs |-> key, begin |-> t, stopped |-> FALSE]

\* the slot holds a created histogram
HasHistogram(h) ==
  h \in DOMAIN latencyHistograms /\ latencyHistograms[h] /= NullInstrument

\* variant: no validation of the histogram name
KnownAlways(h) == TRUE

\* the histogram name is one of latencyNames
KnownName(h) == \E i \in DOMAIN latencyNames : latencyNames[i] = h

\* ScopedLatency(name, histogramName, scopeKey): the name is validated against
\* the predefined set and an unknown one is reported; the slot of a known name
\* is looked up, nothing is inserted; a timer without a histogram (unknown
\* name, or registry not initialised) is inert.
ConstructNamed(t, h, key) ==
  /\ ~crashed
  /\ pc[t] = "idle"
  /\ timer[t].state /= "alive"
  /\ LET found == KnownName(h) /\ HasHistogram(h)
         made == ScopedLatency(h, key, now)
     IN /\ timer' = [timer EXCEPT ![t] =
                       IF found THEN made ELSE [made EXCEPT !.stopped = TRUE]]
        /\ obs' = [obs EXCEPT ![t] =
                     [state |-> "alive", live |-> found, age |-> 0,
                      samples |-> << >>, stops |-> 0, exit |-> "none"]]
  /\ faults' = IF KnownName(h) THEN faults ELSE faults \cup {h}
  /\ timersMade' = timersMade + 1
  /\ UNCHANGED <<registryVars, cacheVars, callVars, now, crashed, mn>>

\* class_name##_latency(name): ScopedLatency(name, histogram_name "_latency", category)
Construct(t, c) ==
  ConstructNamed(t, HistogramNameOf(LatencyClasses[c]), LatencyClasses[c].category)

\* ScopedLatency::stop() on the timer of thread t: the timer after the call
StoppedTimer(t) == [timer[t] EXCEPT !.stopped = TRUE]

\* ScopedLatency::stop(): the instruments after the call
StopRecords(t) ==
  IF timer[t].stopped THEN instruments
  ELSE RecordTo(instruments, latencyHistograms[timer[t].histogram], now - timer[t].begin)

\* what an observer of a stop() of thread t's timer notes: the sample, if one
\* is recorded, and (up to two) that stop() has run
Observed(t) ==
  [obs[t] EXCEPT !.samples = IF timer[t].stopped THEN @
                               ELSE Append(@, now - timer[t].begin),
                 !.stops = IF @ = 0 THEN 1 ELSE 2]

\* variant: stop() takes the registry mutex for its recording
StopUnderMutex(t) ==
  /\ ~crashed
  /\ pc[t] = "idle"
  /\ timer[t].state = "alive"
  /\ CanLock(mutex_)
  /\ instruments' = StopRecords(t)
  /\ timer' = [timer EXCEPT ![t] = StoppedTimer(t)]
  /\ obs' = [obs EXCEPT ![t] = Observed(t)]
  /\ UNCHANGED <<timersMade, registryVars, counters, upDownCounters, latencyHistograms,
                 callVars, now, crashed, otherVars>>

\* an explicit stop() call
Stop(t) ==
  /\ ~crashed
  /\ pc[t] = "idle"
  /\ timer[t].state = "alive"
  /\ instruments' = StopRecords(t)
  /\ timer' = [timer EXCEPT ![t] = StoppedTimer(t)]
  /\ obs' = [obs EXCEPT ![t] = Observed(t)]
  /\ UNCHANGED <<timersMade, registryVars, counters, upDownCounters, latencyHistograms,
                 callVars, now, crashed, otherVars>>

\* ~ScopedLatency(): the scope ends (normally, by an early return or by an
\* exception unwinding it); the finalizer calls stop() and the object is gone
Destroy(t, exit) ==
  /\ ~crashed
  /\ pc[t] = "idle"
  /\ timer[t].state = "alive"
  /\ instruments' = StopRecords(t)
  /\ timer' = [timer EXCEPT ![t] = Destroyed]
  /\ obs' = [obs EXCEPT ![t] = [Observed(t) EXCEPT !.state = "destroyed", !.exit = exit]]
  /\ UNCHANGED <<timersMade, registryVars, counters, upDownCounters, latencyHistograms,
                 callVars, now, crashed, otherVars>>

\* std::chrono::steady_clock advances; every timer that has not yet been
\* stopped for the first time has run one unit longer
Tick ==
  /\ ~crashed
  /\ now < MaxTime
  /\ now' = now + 1
  /\ obs' = [t \in Threads |->
               IF obs[t].state = "alive" /\ obs[t].stops = 0
               THEN [obs[t] EXCEPT !.age = @ + 1] ELSE obs[t]]
  /\ UNCHANGED <<registryVars, cacheVars, callVars, timer, timersMade, crashed, otherVars>>

\* ---------------------------------------------------------- methodName
\* the characters a signature is made of: a letter, a space and the parentheses
Alphabet == {"a", " ", "(", ")"}

\* the signatures of at most MaxLen characters
Signatures == UNION {[1..n -> Alphabet] : n \in 0..MaxLen}

\* size_t arithmetic wraps around.  The wrap is taken modulo 2^30, the widest
\* power of two the checker's integers hold; for strings shorter than that the
\* results are those of a 64 bit size_t.
SizeMod == 2^30

\* std::string_view::npos, size_t(-1)
Npos == SizeMod - 1

\* s.rfind(ch, pos): the last index <= pos at which ch stands, npos if none;
\* indices count from 0
Rfind(s, ch, pos) ==
  LET hits == {i \in 0..(Len(s) - 1) : i <= pos /\ s[i + 1] = ch}
  IN IF hits = {} THEN Npos ELSE CHOOSE i \in hits : \A j \in hits : j <= i

\* s.substr(pos, n): at most n characters from index pos on (pos <= size)
Substr(s, pos, n) ==
  LET rlen == IF n < Len(s) - pos THEN n ELSE Len(s) - pos
  IN SubSeq(s, pos + 1, pos + rlen)

\* constexpr std::string_view methodName(const char* s)
methodName(s) ==
  LET bracket == Rfind(s, "(", Npos)
      space == (Rfind(s, " ", bracket) + 1) % SizeMod
  IN Substr(s, space, (bracket + SizeMod - space) % SizeMod)

\* a caller evaluates methodName(mn.arg)
MethodNameCall ==
  /\ ~mn.done
  /\ mn' = [mn EXCEPT !.done = TRUE, !.result = methodName(mn.arg)]
  /\ UNCHANGED <<registryVars, cacheVars, callVars, timerVars, now, crashed, faults>>

\* ----------------------------------------------------- specifications
Options ==
  [enablePrometheusExporter : BOOLEAN, enableOStreamExporter : BOOLEAN]

Steps ==
  \/ \E t \in Threads : Lock(t)
  \/ \E t \in Threads : CheckMeter(t)
  \/ \E t \in Threads : Find(t)
  \/ \E t \in Threads : Create(t)
  \/ \E t \in Threads : Add(t)

\* the registry with its counters, its up-down counters and its timers; the
\* clock stands still, every call adds 1 or -1, and the timers are task
\* timers that end normally
OpsRoom == timersMade + SumCalls(Threads) < MaxOps

Next ==
  \/ \E o \in Options : InitRegistry(o)
  \/ InitHistograms
  \/ Shutdown
  \/ \E t \in Threads, n \in Names : OpsRoom /\ Call(t, "counter", n, 1)
  \/ \E t \in Threads, n \in Names : OpsRoom /\ Call(t, "updown", n, 0 - 1)
  \/ Steps
  \/ \E t \in Threads : CreateOnEmptyMeter(t)
  \/ \E t \in Threads : OpsRoom /\ Construct(t, 4)
  \/ \E t \in Threads : Stop(t)
  \/ \E t \in Threads : Destroy(t, "normal")

Spec == Init /\ [][Next]_vars

\* the same under fair scheduling: a thread inside the critical section keeps
\* running, and a thread waiting for the mutex gets it if it is free again and
\* again
Fairness ==
  \A t \in Threads :
     /\ WF_vars(CheckMeter(t) \/ Find(t) \/ Create(t) \/ Add(t))
     /\ SF_vars(Lock(t))

SpecFair == Init /\ [][Next]_vars /\ Fairness

\* addCounter alone
CallsRoom == SumCalls(Threads) < MaxCalls

NextCounter ==
  \/ \E o \in Options : InitRegistry(o)
  \/ InitHistograms
  \/ Shutdown
  \/ \E t \in Threads, n \in Names, v \in CounterValues :
       CallsRoom /\ Call(t, "counter", n, v)
  \/ Steps
  \/ \E t \in Threads : CreateOnEmptyMeter(t)

SpecCounter == Init /\ [][NextCounter]_vars

\* addUpDownCounter alone
NextUpDown ==
  \/ \E o \in Options : InitRegistry(o)
  \/ InitHistograms
  \/ Shutdown
  \/ \E t \in Threads, n \in Names, v \in Deltas :
       CallsRoom /\ Call(t, "updown", n, v)
  \/ Steps
  \/ \E t \in Threads : CreateOnEmptyMeter(t)

SpecUpDown == Init /\ [][NextUpDown]_vars

\* every thread calls addCounter("shared", 1) once; the provider is never released
NextShared ==
  \/ \E o \in Options : InitRegistry(o)
  \/ InitHistograms
  \/ \E t \in Threads : ncalls[t] = 0 /\ Call(t, "counter", "shared", 1)
  \/ Steps

SpecShared == Init /\ [][NextShared]_vars

\* the timers alone, of all five classes, with a running clock
NextTimers ==
  \/ \E o \in Options : InitRegistry(o)
  \/ InitHistograms
  \/ Shutdown
  \/ \E t \in Threads, c \in DOMAIN LatencyClasses :
       timersMade < MaxTimers /\ Construct(t, c)
  \/ \E t \in Threads : Stop(t)
  \/ \E t \in Threads, e \in ExitPaths : Destroy(t, e)
  \/ Tick

SpecTimers == Init /\ [][NextTimers]_vars

\* the three-argument constructor called with a predefined and with another
\* histogram name; the clock stands still
TimerNames == {"lock_latency", "other_latency"}

NextNamed ==
  \/ \E o \in Options : InitRegistry(o)
  \/ InitHistograms
  \/ Shutdown
  \/ \E t \in Threads, h \in TimerNames :
       timersMade < MaxTimers /\ ConstructNamed(t, h, "scope")
  \/ \E t \in Threads : Stop(t)
  \/ \E t \in Threads, e \in ExitPaths : Destroy(t, e)

SpecNamed == Init /\ [][NextNamed]_vars

\* the category timers of all five classes; the clock stands still and every
\* scope ends normally
NextCategories ==
  \/ \E o \in Options : InitRegistry(o)
  \/ InitHistograms
  \/ Shutdown
  \/ \E t \in Threads, c \in DOMAIN LatencyClasses :
       timersMade < MaxTimers /\ Construct(t, c)
  \/ \E t \in Threads : Stop(t)
  \/ \E t \in Threads : Destroy(t, "normal")

SpecCategories == Init /\ [][NextCategories]_vars

\* methodName alone, on every signature of the bounded alphabet
InitMethodName ==
  /\ provider = NoProvider
  /\ phase = "boot"
  /\ mutex_ = NoThread
  /\ counters = EmptyCache
  /\ upDownCounters = EmptyCache
  /\ latencyHistograms = EmptyCache
  /\ instruments = << >>
  /\ pc = [t \in Threads |-> "idle"]
  /\ call = [t \in Threads |-> NoCall]
  /\ ncalls = [t \in Threads |-> 0]
  /\ sent = [k \in {"counter", "updown"} |-> [n \in Names |-> [calls |-> 0, sum |-> 0]]]
  /\ timer = [t \in Threads |-> NoTimer]
  /\ obs = [t \in Threads |-> NoTimer]
  /\ timersMade = 0
  /\ now = 0
  /\ histInits = 0
  /\ crashed = FALSE
  /\ faults = {}
  /\ \E s \in Signatures : mn = [arg |-> s, done |-> FALSE, result |-> << >>]

NextMethodName == MethodNameCall

SpecMethodName == InitMethodName /\ [][NextMethodName]_vars

\* ------------------------------------------------------------- claims
Quiet == \A t \in Threads : pc[t] = "idle"

\* the one instrument the cache holds for name has received total
Holds(cache, kind, name, total) ==
  /\ Cardinality(Created(kind, name)) = 1
  /\ name \in DOMAIN cache
  /\ cache[name] \in Created(kind, name)
  /\ instruments[cache[name]].total = total

AllReturned == \A t \in Threads : ncalls[t] = 1 /\ pc[t] = "idle"

\* C1: with a provider installed, N threads that each call
\* addCounter("shared", 1) concurrently create, in every interleaving, one
\* counter instrument for "shared" (never two), and once all the calls have
\* returned the total added to it is N.
C1_SharedCounterOnce ==
  /\ Cardinality(Created("counter", "shared")) <= 1
  /\ (AllReturned /\ sent["counter"]["shared"].calls = NumThreads)
       => Holds(counters, "counter", "shared", NumThreads)

C1_Witness ==
  /\ AllReturned
  /\ sent["counter"]["shared"].calls = NumThreads
  /\ instruments[counters["shared"]].count = NumThreads

\* C2: a scoped latency timer constructed while its histogram exists never
\* records two samples, and once destroyed has recorded exactly one, whichever
\* way its scope ended and whether or not stop() was called before.
C2_ExactlyOneSample ==
  \A t \in Threads :
     (obs[t].state /= "none" /\ obs[t].live) =>
        /\ Len(obs[t].samples) <= 1
        /\ obs[t].state = "destroyed" => Len(obs[t].samples) = 1

C2_Witness ==
  \E t \in Threads :
     /\ obs[t].state = "destroyed"
     /\ obs[t].live
     /\ obs[t].exit = "exception"
     /\ obs[t].stops = 1
     /\ Len(obs[t].samples) = 1

\* what holds of a timer once stop() has run on it
FirstStopCounts ==
  \A t \in Threads :
     (obs[t].state /= "none" /\ obs[t].live /\ obs[t].stops >= 1) =>
        /\ obs[t].samples = << obs[t].age >>
        /\ obs[t].age >= 0
        /\ timer[t].state = "alive" => timer[t].stopped

\* a stop() or the finalizer running on a timer that was already stopped
LaterStop(t) ==
  /\ obs[t].state = "alive"
  /\ obs[t].live
  /\ obs[t].stops >= 1
  /\ obs'[t] /= obs[t]

\* C3: stop() is idempotent: only the first stop() of a timer records, the one
\* sample is the time that passed between construction and that first stop()
\* and is >= 0, and every later stop(), and the finalizer after a stop(),
\* changes neither any instrument nor the timer.
C3_StopIdempotent ==
  [][ /\ FirstStopCounts'
      /\ \A t \in Threads :
           LaterStop(t) =>
              /\ instruments' = instruments
              /\ obs'[t].samples = obs[t].samples
              /\ timer'[t].state = "alive" => timer'[t] = timer[t] ]_vars

C3_Witness ==
  \E t \in Threads :
     /\ obs[t].state = "alive"
     /\ obs[t].live
     /\ obs[t].stops = 2
     /\ obs[t].samples = << 1 >>

\* C4: before init, with no provider installed, every addCounter and
\* addUpDownCounter call returns at the meter check: no instrument is
\* created, nothing is added, and both caches stay empty.
C4_NoProviderNoOp ==
  phase = "boot" =>
     /\ ~crashed
     /\ instruments = << >>
     /\ counters = EmptyCache
     /\ upDownCounters = EmptyCache
     /\ \A t \in Threads : pc[t] \in {"idle", "lock", "check"}

C4_Witness ==
  /\ phase = "boot"
  /\ Quiet
  /\ \A t \in Threads : ncalls[t] >= 1

\* C5: once shutdown() has completed, getMeter() is empty and no later
\* addCounter, addUpDownCounter or timer stop reaches an instrument or
\* creates one (calls that were already past the meter check when shutdown
\* ran are not "later" calls).
C5_NothingAfterShutdown ==
  [][ (phase = "down" /\ \A t \in Threads : pc[t] \in {"idle", "lock", "check"})
        => /\ getMeter(provider) = NoMeter
           /\ instruments' = instruments
           /\ ~crashed' ]_vars

\* C6: a call racing with shutdown() never dereferences an empty meter and
\* never leaves a cache entry that holds no instrument.
C6_RaceWithShutdownIsSafe ==
  /\ ~crashed
  /\ \A n \in DOMAIN counters : counters[n] /= NullInstrument
  /\ \A n \in DOMAIN upDownCounters : upDownCounters[n] /= NullInstrument

\* C7: in every reachable state at most one instrument has been created per
\* (kind, name), for counters, up-down counters and histograms.
C7_OneInstrumentPerName ==
  \A g, h \in DOMAIN instruments :
     (instruments[g].kind = instruments[h].kind /\ instruments[g].name = instruments[h].name)
       => g = h

C7_Witness ==
  /\ histInits = 2
  /\ \E n \in Names : sent["updown"][n].calls = 2 /\ Created("updown", n) /= {}
  /\ Quiet

\* C8: with a provider installed, after any sequence of addCounter calls on a
\* name (none still running), one counter instrument has been created for it
\* and its cumulative value is the sum of the values passed.
C8_CounterSum ==
  \A n \in Names :
     (provider = Installed /\ sent["counter"][n].calls >= 1
        /\ \A t \in Threads : call[t].name /= n)
       => Holds(counters, "counter", n, sent["counter"][n].sum)

C8_Witness ==
  /\ provider = Installed
  /\ Quiet
  /\ sent["counter"]["x"].calls = 2
  /\ Cardinality(Created("counter", "x")) = 1
  /\ instruments[counters["x"]].total = 3

\* C9: after initHistograms() the histogram cache holds exactly the keys
\* method_latency, lua_latency, query_latency, task_latency and lock_latency,
\* each with its own created histogram; calling it again creates nothing more.
C9_FiveHistograms ==
  histInits >= 1 =>
     /\ DOMAIN latencyHistograms =
          {"method_latency", "lua_latency", "query_latency", "task_latency", "lock_latency"}
     /\ \A n \in DOMAIN latencyHistograms :
          Holds(latencyHistograms, "histogram", n, instruments[latencyHistograms[n]].total)
     /\ Cardinality({h \in DOMAIN instruments : instruments[h].kind = "histogram"}) = 5

C9_Witness ==
  /\ histInits = 2
  /\ Cardinality(DOMAIN latencyHistograms) = 5

\* C10: with a provider installed, after any sequence of addUpDownCounter
\* calls on a name (none still running), one up-down counter has been created
\* for it and its cumulative value is the signed sum of the deltas: negative
\* deltas are applied as they are, and the value can be negative.
C10_UpDownSignedSum ==
  \A n \in Names :
     (provider = Installed /\ sent["updown"][n].calls >= 1
        /\ \A t \in Threads : call[t].name /= n)
       => Holds(upDownCounters, "updown", n, sent["updown"][n].sum)

C10_Witness ==
  /\ provider = Installed
  /\ Quiet
  /\ sent["updown"]["x"].calls = 2
  /\ sent["updown"]["x"].sum < 0
  /\ instruments[upDownCounters["x"]].total = sent["updown"]["x"].sum

\* C11: for every signature s, methodName(s) contains neither a space nor a
\* '(': it is the text between the last space before the '(' that opens the
\* parameter list and that '(', also when the parameter list has parentheses
\* of its own, when no space precedes the '(' and when s has no '(' at all.
C11_LabelIsBareName ==
  mn.done => \A i \in DOMAIN mn.result : mn.result[i] \notin {" ", "("}

\* C12: after init with neither exporter enabled the registry is disabled:
\* getMeter() is empty, every addCounter and addUpDownCounter call returns at
\* the meter check, no timer records a sample, no instrument is created and
\* the caches stay empty, as before init.
C12_DisabledNoOp ==
  phase = "disabled" =>
     /\ getMeter(provider) = NoMeter
     /\ ~crashed
     /\ instruments = << >>
     /\ counters = EmptyCache
     /\ upDownCounters = EmptyCache
     /\ latencyHistograms = EmptyCache
     /\ \A t \in Threads :
          /\ pc[t] \in {"idle", "lock", "check"}
          /\ obs[t].state /= "none" => obs[t].samples = << >>

C12_Witness ==
  /\ phase = "disabled"
  /\ Quiet
  /\ \E t \in Threads : ncalls[t] >= 1
  /\ \E t \in Threads : obs[t].state = "destroyed" /\ obs[t].stops >= 1

PredefinedNames ==
  {"method_latency", "lua_latency", "query_latency", "task_latency", "lock_latency"}

\* thread t constructs a timer in this step
Constructs(t) == timer[t].state /= "alive" /\ timer'[t].state = "alive"

\* C13: a timer constructed with a histogram name outside the five predefined
\* names is reported by the constructor's validation, is inert from then on
\* (no stop() of it records a sample), and neither its construction nor its
\* stop adds a key to the histogram cache.
C13_UnknownNameReported ==
  [][ \A t \in Threads :
        /\ (Constructs(t) /\ timer'[t].histogram \notin PredefinedNames)
             => /\ timer'[t].histogram \in faults'
                /\ timer'[t].stopped
                /\ instruments' = instruments
                /\ latencyHistograms' = latencyHistograms
        /\ (timer[t].state = "alive" /\ timer[t].histogram \notin PredefinedNames)
             => /\ timer[t].histogram \in faults'
                /\ obs'[t].samples = << >>
                /\ timer'[t] /= timer[t] => /\ instruments' = instruments
                                            /\ latencyHistograms' = latencyHistograms
                                            /\ faults' = faults ]_vars

C13_Witness ==
  /\ histInits >= 1
  /\ "other_latency" \in faults
  /\ "other_latency" \notin DOMAIN latencyHistograms
  /\ \E t \in Threads :
       obs[t].state = "destroyed" /\ ~obs[t].live /\ obs[t].stops = 2 /\ obs[t].samples = << >>

\* C14: once initHistograms() has completed, no step (addCounter,
\* addUpDownCounter, timer construction, stop(), the finalizer, shutdown(), a
\* further initHistograms()) changes the key set of latencyHistograms.
C14_HistogramKeysFixed ==
  [][ histInits >= 1 => DOMAIN latencyHistograms' = DOMAIN latencyHistograms ]_vars

C14_Witness ==
  /\ histInits = 2
  /\ phase = "down"
  /\ DOMAIN latencyHistograms = PredefinedNames
  /\ \E n \in Names : Created("counter", n) /= {}
  /\ \E t \in Threads : obs[t].state = "destroyed" /\ Len(obs[t].samples) = 1

\* the histogram and the label key of each category timer
CategoryTargets ==
  [method |-> << "method_latency", "method" >>,
   lua    |-> << "lua_latency", "scope" >>,
   query  |-> << "query_latency", "truncated_query" >>,
   task   |-> << "task_latency", "task" >>,
   lock   |-> << "lock_latency", "scope" >>]

\* C15: each of the five category timers targets "<category>_latency" with
\* the label key method / scope / truncated_query / task / scope, and that
\* name is one of latencyNames; a category timer constructed after
\* initHistograms() finds its histogram created, and no construction creates
\* an instrument or a cache entry.
C15_CategoryTargets ==
  [][ /\ {LatencyClasses[c].class_name : c \in DOMAIN LatencyClasses} = DOMAIN CategoryTargets
      /\ \A c \in DOMAIN LatencyClasses :
           /\ << HistogramNameOf(LatencyClasses[c]), LatencyClasses[c].category >>
                = CategoryTargets[LatencyClasses[c].class_name]
           /\ \E i \in DOMAIN latencyNames : latencyNames[i] = HistogramNameOf(LatencyClasses[c])
      /\ \A t \in Threads :
           Constructs(t) =>
              /\ \E k \in DOMAIN CategoryTargets :
                   << timer'[t].histogram, timer'[t].attrs >> = CategoryTargets[k]
              /\ instruments' = instruments
              /\ latencyHistograms' = latencyHistograms
              /\ histInits >= 1 =>
                   /\ HasHistogram(timer'[t].histogram)
                   /\ instruments[latencyHistograms[timer'[t].histogram]].name = timer'[t].histogram
                   /\ obs'[t].live
                   /\ ~timer'[t].stopped ]_vars

C15_Witness ==
  /\ histInits >= 1
  /\ faults = {}
  /\ \E t \in Threads :
       /\ timer[t].state = "alive"
       /\ timer[t].histogram = "lock_latency"
       /\ timer[t].attrs = "scope"
       /\ obs[t].live
       /\ instruments[latencyHistograms["lock_latency"]].kind = "histogram"

\* thread u is inside addCounter or addUpDownCounter and holds the mutex
HoldsMutex(u) == mutex_ = u /\ pc[u] \in {"check", "find", "create", "add"}

\* C16: timers do not go through the registry mutex: while another thread
\* holds it inside addCounter or addUpDownCounter, a thread can take a stop()
\* step on its timer, or construct one if it has none; and the mutex is only
\* ever held by a thread inside addCounter or addUpDownCounter, never by a
\* thread on account of a timer.
C16_TimersBypassMutex ==
  /\ mutex_ /= NoThread => HoldsMutex(mutex_)
  /\ \A t, u \in Threads :
       (u /= t /\ HoldsMutex(u) /\ pc[t] = "idle" /\ ~crashed) =>
          /\ timer[t].state = "alive" => ENABLED Stop(t)
          /\ timer[t].state /= "alive" => ENABLED Construct(t, 4)

C16_Witness ==
  \E t, u \in Threads :
     /\ u /= t
     /\ HoldsMutex(u)
     /\ pc[u] = "create"
     /\ timer[t].state = "alive"
     /\ obs[t].live
     /\ obs[t].stops = 1
     /\ Len(obs[t].samples) = 1

\* thread t is between the start of its lookup and the end of its add
InCritical(t) == pc[t] \in {"check", "find", "create", "add"}

\* the cache the call of thread t works on
CacheOf(t) == IF call[t].op = "counter" THEN counters ELSE upDownCounters

\* C17: at most one thread at a time is inside the critical section of
\* addCounter and addUpDownCounter together, and that thread holds the mutex;
\* what its lookup found still holds when it creates (as long as the
\* process is alive) and when it adds: no other call has created in between.
C17_MutualExclusion ==
  /\ \A t, u \in Threads : (InCritical(t) /\ InCritical(u)) => t = u
  /\ \A t \in Threads :
       /\ InCritical(t) => mutex_ = t
       /\ (pc[t] = "create" /\ ~crashed) => call[t].name \notin DOMAIN CacheOf(t)
       /\ pc[t] = "add" =>
            /\ call[t].name \in DOMAIN CacheOf(t)
            /\ CacheOf(t)[call[t].name] \in Created(call[t].op, call[t].name)

C17_Witness ==
  \E t, u \in Threads :
     /\ pc[t] = "add" /\ call[t].op = "counter"
     /\ pc[u] = "lock" /\ call[u].op = "updown"
     /\ mutex_ = t

\* the entries of cache that hold an instrument are the same after the step
Kept(cache, cacheAfter) ==
  \A n \in DOMAIN cache :
     cache[n] /= NullInstrument => (n \in DOMAIN cacheAfter /\ cacheAfter[n] = cache[n])

\* C18: once a cache holds an instrument for a name, no step (addCounter,
\* addUpDownCounter, a timer operation, initHistograms(), shutdown()) replaces
\* or removes that entry, and every instrument created stays the instrument
\* of its kind and name.
C18_InstrumentsStay ==
  [][ /\ Kept(counters, counters')
      /\ Kept(upDownCounters, upDownCounters')
      /\ Kept(latencyHistograms, latencyHistograms')
      /\ \A h \in DOMAIN instruments :
           /\ h \in DOMAIN instruments'
           /\ instruments'[h].kind = instruments[h].kind
           /\ instruments'[h].name = instruments[h].name ]_vars

C18_Witness ==
  /\ phase = "down"
  /\ histInits = 2
  /\ \E n \in Names :
       /\ n \in DOMAIN counters
       /\ counters[n] \in Created("counter", n)
       /\ instruments[counters[n]].count = 2

\* C19: the mutex is released on every exit path of addCounter and
\* addUpDownCounter: it is never held by a thread that has returned (or has not
\* yet locked), and whenever a call is in progress some call in progress can
\* take its next step, so that under fair scheduling every call returns and
\* no deadlock is reachable.
C19_CallsReturn ==
  /\ \A t \in Threads : pc[t] \in {"idle", "lock"} => mutex_ /= t
  /\ (\E t \in Threads : pc[t] /= "idle")
       => ENABLED (Steps \/ \E t \in Threads : CreateOnEmptyMeter(t))

====
